---- MODULE Spec2Model ----
(***************************************************************************)
(* The hash-chained digital-identity ledger of backend_postgresql.py:      *)
(* the blockchain_ids table (BlockchainID), DigitalIDBlockchain's          *)
(* generate_hash and create_digital_id, run by a pool of request workers   *)
(* against one PostgreSQL store and one wall clock.                        *)
(*                                                                         *)
(* Python values are modelled as follows.  A dict is the sequence of its   *)
(* <<key, value>> pairs in insertion order.  A JSON scalar taken from the  *)
(* request is tagged: <<"str", s>> or <<"null", "">>.  A str built by the  *)
(* code from digits is the sequence of its characters, and one built by    *)
(* repeating a character, c * n, is <<c, n>>.  A datetime is [sec, usec]:  *)
(* whole seconds since the epoch and the microsecond field.                *)
(* A SHA-256 hex digest is <<"sha256", text>>: the digest is taken to be   *)
(* collision free, and nothing else is assumed of it.                      *)
(***************************************************************************)
EXTENDS Integers, Sequences, FiniteSets, TLC

(* ------------------------------ bounds -------------------------------- *)

\* Calls of create_digital_id started in one behaviour.
MaxMints == 2

\* Calls of create_digital_id started in one behaviour in which each call
\* ends before the next begins.
MaxSeqMints == 3

\* The same, in the behaviours that draw the request body from all of
\* UserInputs.
MaxInputMints == 2

\* The same, in the behaviours in which a stored payload is tampered with.
MaxTamperMints == 2

\* The request workers.
Workers == {"w1", "w2"}

\* The instants the wall clock shows, in order: the last microsecond of one
\* second, two instants of the next second, the second after that, and an
\* instant 10^6 seconds after it.
Instants ==
  << [sec |-> 1699999999, usec |-> 999999],
     [sec |-> 1700000000, usec |-> 0],
     [sec |-> 1700000000, usec |-> 1],
     [sec |-> 1700000001, usec |-> 0],
     [sec |-> 1701000001, usec |-> 0] >>

(* ------------------------- program constants -------------------------- *)

\* '0' * 64
ZeroHashLen == 64

\* [-6:]
IdDigits == 6

(* --------------------------- Python helpers --------------------------- *)

JStr(s) == <<"str", s>>
JNull == <<"null", "">>

\* The keys of a dict.
Keys(d) == {d[i][1] : i \in 1..Len(d)}

\* d.get(k, default)
DictGet(d, k, default) ==
  IF k \in Keys(d)
    THEN LET i == CHOOSE j \in 1..Len(d) : d[j][1] = k IN d[i][2]
    ELSE default

\* d[k] = v
DictSet(d, k, v) ==
  IF k \in Keys(d)
    THEN [i \in 1..Len(d) |-> IF d[i][1] = k THEN <<k, v>> ELSE d[i]]
    ELSE Append(d, <<k, v>>)

\* The keys create_digital_id puts into block_data, in lexicographic order
\* (the order sort_keys=True writes them in).
KeyOrder ==
  <<"contact", "digital_id", "name", "nationality", "previous_hash", "timestamp">>

\* json.dumps(data, sort_keys=True): the pairs of the dict, sorted by key.
IsKeyOf(d, k) == k \in Keys(d)
json_dumps_sorted(data) ==
  LET present == SelectSeq(KeyOrder, LAMBDA k : IsKeyOf(data, k))
  IN  [i \in 1..Len(present) |-> <<present[i], DictGet(data, present[i], JNull)>>]

DigitChars == <<"0", "1", "2", "3", "4", "5", "6", "7", "8", "9">>

\* str(n) for n >= 0: the decimal digits, most significant first.
RECURSIVE Str(_)
Str(n) ==
  IF n < 10 THEN <<DigitChars[n + 1]>>
            ELSE Append(Str(n \div 10), DigitChars[(n % 10) + 1])

\* s[-k:]
LastChars(s, k) == IF Len(s) <= k THEN s ELSE SubSeq(s, Len(s) - k + 1, Len(s))

\* int(timestamp.timestamp()): the whole seconds of the datetime (the naive
\* datetime is read in the server's zone, which is UTC here).
IntTimestamp(t) == t.sec

\* timestamp.isoformat(): a text that renders the seconds and microseconds.
isoformat(t) == <<"iso", t.sec, t.usec>>

(* --------------------------- DigitalIDBlockchain ---------------------- *)

\* c * n
Repeat(c, n) == <<c, n>>

\* '0' * 64
ZeroHash == Repeat("0", ZeroHashLen)

\* A digest that leaves the nationality out of what it hashes.
RECURSIVE WithoutKey(_, _)
WithoutKey(d, k) ==
  IF d = <<>> THEN <<>>
  ELSE IF d[1][1] = k THEN WithoutKey(Tail(d), k)
  ELSE <<d[1]>> \o WithoutKey(Tail(d), k)
HashSkippingNationality(data) ==
  <<"sha256", json_dumps_sorted(WithoutKey(data, "nationality"))>>

\* generate_hash(data)
generate_hash(data) == <<"sha256", json_dumps_sorted(data)>>

\* An id cut one digit too long: [-7:]
DigitalIdSevenDigits(timestamp) ==
  <<"D", "I", "D">> \o LastChars(Str(IntTimestamp(timestamp)), IdDigits + 1)

\* 'DID' + str(int(timestamp.timestamp()))[-6:]
DigitalId(timestamp) ==
  <<"D", "I", "D">> \o LastChars(Str(IntTimestamp(timestamp)), IdDigits)

\* last_record.hash if last_record else '0' * 64
NoRecord == <<>>
PreviousHash(last_record) ==
  IF last_record = NoRecord THEN ZeroHash ELSE last_record.hash

\* A block_data whose nationality is user_data.get('nationality') or 'Unknown'.
BlockDataOrUnknown(ud, timestamp, previous_hash) ==
  LET given == DictGet(ud, "nationality", JNull) IN
  DictSet(
    << <<"name", DictGet(ud, "name", JNull)>>,
       <<"contact", DictGet(ud, "contact", JNull)>>,
       <<"nationality",
         IF given \in {JNull, JStr("")} THEN JStr("Unknown") ELSE given>>,
       <<"timestamp", isoformat(timestamp)>>,
       <<"previous_hash", previous_hash>> >>,
    "digital_id", DigitalId(timestamp))

\* The block_data dict as create_digital_id builds it.
BlockData(ud, timestamp, previous_hash) ==
  DictSet(
    << <<"name", DictGet(ud, "name", JNull)>>,
       <<"contact", DictGet(ud, "contact", JNull)>>,
       <<"nationality", DictGet(ud, "nationality", JStr("Unknown"))>>,
       <<"timestamp", isoformat(timestamp)>>,
       <<"previous_hash", previous_hash>> >>,
    "digital_id", DigitalId(timestamp))

\* The BlockchainID row create_digital_id constructs; id and created_at are
\* filled in by the store when the row is flushed.
BlockchainRecord(ud, timestamp, last_record, id, created_at) ==
  LET previous_hash == PreviousHash(last_record)
      block_data == BlockData(ud, timestamp, previous_hash)
  IN  [id |-> id,
       digital_id |-> DigitalId(timestamp),
       block_data |-> block_data,
       hash |-> generate_hash(block_data),
       previous_hash |-> previous_hash,
       created_at |-> created_at,
       verified |-> TRUE]

(* ------------------------------- state -------------------------------- *)

VARIABLES
  ledger,       \* the committed rows of blockchain_ids, in commit order
  nextId,       \* the next value of the table's id sequence
  clock,        \* the wall clock: the index in Instants of the instant it shows
  pc,           \* where each worker is in its request
  user_data,    \* create_digital_id's argument, per worker
  timestamp,    \* its local timestamp
  last_record,  \* its local last_record
  ret,          \* the digital_id it returned to the handler
  tourists,     \* the digital_id of every row of the tourists table
  mints,        \* calls of create_digital_id started so far
  tampered      \* the id of the row whose stored payload was altered, or 0

vars ==
  <<ledger, nextId, clock, pc, user_data, timestamp, last_record, ret,
    tourists, mints, tampered>>

NoData == <<>>
NoTime == [sec |-> 0, usec |-> 0]
NoId == <<>>

\* datetime.datetime.utcnow()
utcnow == Instants[clock]

\* The request bodies the handler passes on: with a nationality, without
\* the key, with an empty one, with null.
UserInputs ==
  { << <<"name", JStr("Asha")>>, <<"contact", JStr("+91-99999")>>,
       <<"nationality", JStr("India")>> >>,
    << <<"name", JStr("Asha")>>, <<"contact", JStr("+91-99999")>> >>,
    << <<"name", JStr("Asha")>>, <<"contact", JStr("+91-99999")>>,
       <<"nationality", JStr("")>> >>,
    << <<"name", JStr("Asha")>>, <<"contact", JStr("+91-99999")>>,
       <<"nationality", JNull>> >> }

\* The two request bodies that do not give an empty nationality.
CommonInputs ==
  { << <<"name", JStr("Asha")>>, <<"contact", JStr("+91-99999")>>,
       <<"nationality", JStr("India")>> >>,
    << <<"name", JStr("Asha")>>, <<"contact", JStr("+91-99999")>> >> }

\* What a worker that serves no request has answered last.
Resting == {"idle", "MintingFailed", "Registered", "PersistenceFailed"}

Init ==
  /\ ledger = <<>>
  /\ nextId = 1
  /\ clock = 1
  /\ pc = [w \in Workers |-> "idle"]
  /\ user_data = [w \in Workers |-> NoData]
  /\ timestamp = [w \in Workers |-> NoTime]
  /\ last_record = [w \in Workers |-> NoRecord]
  /\ ret = [w \in Workers |-> NoId]
  /\ tourists = {}
  /\ mints = 0
  /\ tampered = 0

(* ------------------------------- store -------------------------------- *)

\* BlockchainID.query.order_by(BlockchainID.created_at.desc()).first():
\* the rows the query may return.  Rows with equal created_at are in no
\* defined order, so any row with the greatest created_at may come first.
Later(a, b) == a.sec > b.sec \/ (a.sec = b.sec /\ a.usec > b.usec)
TailCandidates(l) ==
  IF l = <<>> THEN {NoRecord}
  ELSE {l[i] : i \in {j \in 1..Len(l) :
                        \A k \in 1..Len(l) : ~Later(l[k].created_at, l[j].created_at)}}

\* A digital_id column without its unique constraint.
NoUniqueConstraint(l, row) == FALSE

\* unique=True on blockchain_ids.digital_id
UniqueViolation(l, row) == \E i \in 1..Len(l) : l[i].digital_id = row.digital_id

\* A save that writes over the newest row instead of adding one.
OverwriteTail(l, row) == IF l = <<>> THEN <<row>> ELSE [l EXCEPT ![Len(l)] = row]

\* db.session.add(row); db.session.commit(), the commit succeeding
StoreAppend(l, row) == Append(l, row)

\* A failed commit that leaves its row behind.
KeepFailedRow(l, row) == Append(l, row)

\* db.session.commit() raising: the transaction is not committed
StoreRollback(l, row) == l

(* ------------------------------ actions ------------------------------- *)

\* Time passes: the clock shows the next instant.
Tick ==
  /\ clock < Len(Instants)
  /\ clock' = clock + 1
  /\ UNCHANGED <<ledger, nextId, pc, user_data, timestamp, last_record, ret,
                 tourists, mints, tampered>>

\* create_digital_id is entered: timestamp = datetime.datetime.utcnow()
StartCall(w, limit, inputs) ==
  /\ pc[w] \in Resting
  /\ mints < limit
  /\ \E ud \in inputs : user_data' = [user_data EXCEPT ![w] = ud]
  /\ timestamp' = [timestamp EXCEPT ![w] = utcnow]
  /\ pc' = [pc EXCEPT ![w] = "tail"]
  /\ mints' = mints + 1
  /\ UNCHANGED <<ledger, nextId, clock, last_record, ret, tourists, tampered>>

\* last_record = BlockchainID.query.order_by(created_at.desc()).first()
ReadTail(w) ==
  /\ pc[w] = "tail"
  /\ \E r \in TailCandidates(ledger) : last_record' = [last_record EXCEPT ![w] = r]
  /\ pc' = [pc EXCEPT ![w] = "commit"]
  /\ UNCHANGED <<ledger, nextId, clock, user_data, timestamp, ret, tourists,
                 mints, tampered>>

\* The call ends with an exception: nothing is returned, and the handler
\* answers with the error.
Raise(w) ==
  /\ pc' = [pc EXCEPT ![w] = "MintingFailed"]
  /\ user_data' = [user_data EXCEPT ![w] = NoData]
  /\ timestamp' = [timestamp EXCEPT ![w] = NoTime]
  /\ last_record' = [last_record EXCEPT ![w] = NoRecord]
  /\ ret' = [ret EXCEPT ![w] = NoId]

\* The tail query raises (store unavailable).
ReadTailFail(w) ==
  /\ pc[w] = "tail"
  /\ Raise(w)
  /\ UNCHANGED <<ledger, nextId, clock, tourists, mints, tampered>>

\* The row this worker's db.session.commit() flushes now.
PendingRow(w) ==
  BlockchainRecord(user_data[w], timestamp[w], last_record[w], nextId, utcnow)

\* block_data ... db.session.commit(); return digital_id
CommitOk(w) ==
  /\ pc[w] = "commit"
  /\ ~UniqueViolation(ledger, PendingRow(w))
  /\ ledger' = StoreAppend(ledger, PendingRow(w))
  /\ nextId' = nextId + 1
  /\ ret' = [ret EXCEPT ![w] = PendingRow(w).digital_id]
  /\ pc' = [pc EXCEPT ![w] = "minted"]
  /\ user_data' = [user_data EXCEPT ![w] = NoData]
  /\ timestamp' = [timestamp EXCEPT ![w] = NoTime]
  /\ last_record' = [last_record EXCEPT ![w] = NoRecord]
  /\ UNCHANGED <<clock, tourists, mints, tampered>>

\* db.session.commit() raises IntegrityError: digital_id is taken.  The
\* INSERT has drawn a value of the id sequence, which is not given back.
CommitUniqueViolation(w) ==
  /\ pc[w] = "commit"
  /\ UniqueViolation(ledger, PendingRow(w))
  /\ ledger' = StoreRollback(ledger, PendingRow(w))
  /\ nextId' = nextId + 1
  /\ Raise(w)
  /\ UNCHANGED <<clock, tourists, mints, tampered>>

\* db.session.commit() raises OperationalError: the store is unavailable.
CommitStoreDown(w) ==
  /\ pc[w] = "commit"
  /\ ledger' = StoreRollback(ledger, PendingRow(w))
  /\ Raise(w)
  /\ UNCHANGED <<nextId, clock, tourists, mints, tampered>>

\* registerTourist, after mintIdentity returned: the tourist row is saved.
TouristInsertOk(w) ==
  /\ pc[w] = "minted"
  /\ tourists' = tourists \cup {ret[w]}
  /\ ret' = [ret EXCEPT ![w] = NoId]
  /\ pc' = [pc EXCEPT ![w] = "Registered"]
  /\ UNCHANGED <<ledger, nextId, clock, user_data, timestamp, last_record, mints, tampered>>

\* registerTourist, after mintIdentity returned: the tourist insert fails.
TouristInsertFail(w) ==
  /\ pc[w] = "minted"
  /\ ret' = [ret EXCEPT ![w] = NoId]
  /\ pc' = [pc EXCEPT ![w] = "PersistenceFailed"]
  /\ UNCHANGED <<ledger, nextId, clock, user_data, timestamp, last_record,
                 tourists, mints, tampered>>

Step(w) ==
  \/ ReadTail(w)
  \/ ReadTailFail(w)
  \/ CommitOk(w)
  \/ CommitUniqueViolation(w)
  \/ CommitStoreDown(w)
  \/ TouristInsertOk(w)
  \/ TouristInsertFail(w)

\* A request arrives at an idle worker.
Begin(w) == StartCall(w, MaxMints, CommonInputs)

\* The worker that serves every request when the pool has one worker: each
\* call of create_digital_id then ends before the next one begins.
Sole == CHOOSE w \in Workers : TRUE

\* A request arrives at the only worker.
SeqBegin == StartCall(Sole, MaxSeqMints, CommonInputs)

\* The same, the request body being any of UserInputs.
InputBegin == StartCall(Sole, MaxInputMints, UserInputs)

Next ==
  \/ Tick
  \/ \E w \in Workers : Begin(w)
  \/ \E w \in Workers : Step(w)

SeqNext ==
  \/ Tick
  \/ SeqBegin
  \/ \E w \in Workers : Step(w)

\* The workers of the pool, running requests concurrently.
Spec == Init /\ [][Next]_vars

\* A pool of one worker: each request ends before the next one begins.
SeqSpec == Init /\ [][SeqNext]_vars

InputNext ==
  \/ Tick
  \/ InputBegin
  \/ \E w \in Workers : Step(w)

\* A pool of one worker, with every kind of request body.
InputSpec == Init /\ [][InputNext]_vars

(* ----------------------------- verification --------------------------- *)

\* scanAllOrderedByCreation(): the rows by created_at ascending, rows with
\* equal created_at in the order they were committed in.
RECURSIVE InsertByCreation(_, _)
InsertByCreation(sorted, row) ==
  IF sorted = <<>> THEN <<row>>
  ELSE IF Later(sorted[Len(sorted)].created_at, row.created_at)
    THEN Append(InsertByCreation(SubSeq(sorted, 1, Len(sorted) - 1), row),
                sorted[Len(sorted)])
    ELSE Append(sorted, row)

RECURSIVE scanAllOrderedByCreation(_)
scanAllOrderedByCreation(l) ==
  IF l = <<>> THEN <<>>
  ELSE InsertByCreation(scanAllOrderedByCreation(SubSeq(l, 1, Len(l) - 1)), l[Len(l)])

\* What verifyChain() reports.
LinkMismatch(row) == [entry |-> row.id, kind |-> "previous_hash"]
HashMismatch(row) == [entry |-> row.id, kind |-> "hash"]

\* verifyChain() on the first n rows of the scan e: for every row after the
\* first the link to the row before it, and for every row its digest.
RECURSIVE VerifyPrefix(_, _)
VerifyPrefix(e, n) ==
  IF n = 0 THEN <<>>
  ELSE VerifyPrefix(e, n - 1)
       \o (IF n > 1 /\ e[n].previous_hash # e[n - 1].hash
             THEN <<LinkMismatch(e[n])>> ELSE <<>>)
       \o (IF generate_hash(e[n].block_data) # e[n].hash
             THEN <<HashMismatch(e[n])>> ELSE <<>>)

verifyChain(l) ==
  LET e == scanAllOrderedByCreation(l) IN VerifyPrefix(e, Len(e))

(* ------------------------------ tampering ----------------------------- *)

\* The values a tamperer may write into field f of a stored payload.
TamperValues(f) ==
  CASE f = "timestamp" -> {isoformat(NoTime)}
    [] f = "previous_hash" -> {generate_hash(<<>>)}
    [] f = "digital_id" -> {DigitalId(NoTime)}
    [] OTHER -> {JStr("Mallory")}

\* Somebody with access to the table changes one field of the block_data
\* column of one row of an intact chain; the hash and previous_hash columns
\* stay as they are.
Tamper ==
  /\ tampered = 0
  /\ verifyChain(ledger) = <<>>
  /\ \E k \in 1..Len(ledger) :
       \E j \in 1..Len(ledger[k].block_data) :
         LET f == ledger[k].block_data[j][1] IN
         \E v \in TamperValues(f) :
           /\ v # ledger[k].block_data[j][2]
           /\ ledger' = [ledger EXCEPT ![k].block_data = DictSet(@, f, v)]
           /\ tampered' = ledger[k].id
  /\ UNCHANGED <<nextId, clock, pc, user_data, timestamp, last_record, ret,
                 tourists, mints>>

\* A request arrives at the only worker; none arrives once the payload has
\* been altered and the chain awaits its audit.
TamperBegin ==
  /\ tampered = 0
  /\ StartCall(Sole, MaxTamperMints, CommonInputs)

TamperNext ==
  \/ Tick
  \/ TamperBegin
  \/ \E w \in Workers : Step(w)
  \/ Tamper

\* A pool of one worker, and one act of tampering.
TamperSpec == Init /\ [][TamperNext]_vars

(* ------------------------------- claims ------------------------------- *)

\* The nationality a stored payload holds.
NationalityOf(row) == DictGet(row.block_data, "nationality", <<"absent", "">>)

\* The whole seconds of the minting moment a stored payload records.
SecondsOf(row) == DictGet(row.block_data, "timestamp", isoformat(NoTime))[2]

\* n < 10^6 written with six digits.
SixDigits(n) == [i \in 1..6 |-> DigitChars[((n \div (10 ^ (6 - i))) % 10) + 1]]

\* Worker w's commit succeeds in this step.
Commits(w) == pc[w] = "commit" /\ pc'[w] = "minted"

\* Worker w's commit fails in this step.
CommitFails(w) == pc[w] = "commit" /\ pc'[w] = "MintingFailed"

\* C1: after any number of mintings, each ended before the next began, the
\* first row's previous_hash is 64 zero characters and every later row's
\* previous_hash is the hash of the row committed just before it.
C1_ChainLinked ==
  ledger # <<>> =>
    /\ ledger[1].previous_hash = Repeat("0", 64)
    /\ \A i \in 2..Len(ledger) : ledger[i].previous_hash = ledger[i - 1].hash

\* C2: under concurrent mintings no two committed rows have the same
\* previous_hash: the chain never forks.
C2_NoFork ==
  \A i, j \in 1..Len(ledger) :
    i # j => ledger[i].previous_hash # ledger[j].previous_hash

\* C3: no two rows of the ledger have the same digital_id, and the
\* digital_id of a committed row never changes, whatever mintings run and
\* however they interleave, also when their derived ids coincide.
C3_IdentityUniqueImmutable ==
  /\ [](\A i, j \in 1..Len(ledger) :
          i # j => ledger[i].digital_id # ledger[j].digital_id)
  /\ [][\A i \in 1..Len(ledger) :
          /\ i <= Len(ledger')
          /\ ledger'[i].digital_id = ledger[i].digital_id]_vars

\* C3 witness: a row is committed and a minting whose derived id coincides
\* with it, though minted in another second, is about to insert.
C3_Witness ==
  \E w \in Workers :
    /\ pc[w] = "commit"
    /\ \E i \in 1..Len(ledger) :
         /\ ledger[i].digital_id = PendingRow(w).digital_id
         /\ SecondsOf(ledger[i]) # timestamp[w].sec

\* C4: when the commit inside create_digital_id fails (store unavailable, or
\* digital_id taken), the rows that the tail query and the ordered scan see
\* are exactly those of before, and no digital_id is returned.
C4_FailedAppendIsAtomic ==
  [][\A w \in Workers :
       CommitFails(w) =>
         /\ ledger' = ledger
         /\ TailCandidates(ledger') = TailCandidates(ledger)
         /\ scanAllOrderedByCreation(ledger') = scanAllOrderedByCreation(ledger)
         /\ ret'[w] = NoId]_vars

\* C4 witness: a commit was refused for its digital_id (the id sequence has
\* a gap), the caller got the error, and the ledger holds a row.
C4_Witness ==
  /\ nextId > Len(ledger) + 1
  /\ ledger # <<>>
  /\ \E w \in Workers : pc[w] = "MintingFailed" /\ ret[w] = NoId

\* C5: the ledger is append-only: every step (a minting, a failed minting,
\* a read, a tourist insert that fails after the append) leaves every
\* committed row in place with all its fields unchanged.
C5_AppendOnly ==
  [][\A i \in 1..Len(ledger) : i <= Len(ledger') /\ ledger'[i] = ledger[i]]_vars

\* C5 witness: a tourist insert failed after its ledger append, no request
\* is being served, and a row no tourist refers to is in the ledger.
C5_Witness ==
  /\ \E w \in Workers : pc[w] = "PersistenceFailed"
  /\ \A w \in Workers : pc[w] \in Resting
  /\ \E i \in 1..Len(ledger) : ledger[i].digital_id \notin tourists

\* C6: after mintings alone every row's hash is the digest of its payload,
\* and so verifyChain() reports no violation.
C6_UntouchedChainVerifies ==
  /\ \A i \in 1..Len(ledger) : ledger[i].hash = generate_hash(ledger[i].block_data)
  /\ verifyChain(ledger) = <<>>

\* C7: changing one field of the stored payload of one row of an intact
\* chain makes verifyChain() report the hash mismatch of exactly that row
\* and nothing for any other row.
C7_TamperingIsPinpointed ==
  [][(tampered = 0 /\ tampered' # 0) =>
       verifyChain(ledger') = <<[entry |-> tampered', kind |-> "hash"]>>]_vars

\* C7 witness: the payload of the first row of a chain of two or more rows
\* has been altered.
C7_Witness ==
  /\ Len(ledger) >= 2
  /\ tampered = ledger[1].id

C9_UnknownWhenAbsentOrEmpty ==
  [][\A w \in Workers :
       Commits(w) =>
         NationalityOf(ledger'[Len(ledger')]) =
           IF \/ "nationality" \notin Keys(user_data[w])
              \/ DictGet(user_data[w], "nationality", JNull) \in {JStr(""), JNull}
             THEN JStr("Unknown")
             ELSE DictGet(user_data[w], "nationality", JNull)]_vars

\* C9 as amended: the nationality in the hashed payload is "Unknown" when
\* the input has no nationality key, and the input's value otherwise, an
\* empty string or null included.
C9_UnknownOnlyWhenAbsent ==
  [][\A w \in Workers :
       Commits(w) =>
         NationalityOf(ledger'[Len(ledger')]) =
           IF "nationality" \notin Keys(user_data[w])
             THEN JStr("Unknown")
             ELSE DictGet(user_data[w], "nationality", JNull)]_vars

\* C9 witness: rows minted from an input with an empty nationality, from one
\* with a null nationality and from one without the key are in the ledger.
C9_Witness ==
  /\ \E i \in 1..Len(ledger) : NationalityOf(ledger[i]) \in {JStr(""), JNull}
  /\ \E i \in 1..Len(ledger) : NationalityOf(ledger[i]) = JStr("Unknown")

\* C10: whenever the ledger is not empty, the row create_digital_id takes
\* for the chain tail is the row appended last, the one with the greatest
\* id, also when rows have equal created_at.
C10_TailIsLastAppended ==
  [][\A w \in Workers :
       (pc[w] = "tail" /\ pc'[w] = "commit" /\ ledger # <<>>) =>
         /\ last_record'[w] = ledger[Len(ledger)]
         /\ \A i \in 1..Len(ledger) : ledger[i].id <= last_record'[w].id]_vars

====
